---------------------------- MODULE Spec2Model ----------------------------
(***************************************************************************)
(* A model of the SCORM package validator/repairer                         *)
(* (src/src/utils/scormPackageRepair.ts), of the analyzer                  *)
(* (src/src/utils/scormAnalyzer.ts, src/src/utils/assessmentExtractors.ts),*)
(* of the bulk uploader's processFiles and of Index.handleFileUpload       *)
(* (src/src/pages/Index.tsx).                                              *)
(*                                                                         *)
(* File names, attribute values and element texts are sequences of         *)
(* one-character strings, so that toLowerCase, endsWith, includes and      *)
(* split are computed character by character as the code computes them.    *)
(***************************************************************************)
EXTENDS Integers, Sequences, FiniteSets, TLC

VARIABLES
    file,             \* the File passed to validateAndRepairScormPackage
    keepsPartialTree, \* DOMParser: does its error document keep the elements parsed before the error
    run,              \* 1: the caller's archive; 2: validation of the repaired archive (the uploader: calls of processFiles so far)
    pc,               \* position inside the function a specification follows
    contents,         \* the JSZip working copy (entries in enumeration order)
    manifestFile,     \* the ZipObject found by the manifest presence check, or null
    manifestContent,  \* manifestFile.async('string')
    xmlDoc,           \* parser.parseFromString(manifestContent, 'text/xml')
    issues,
    fixes,
    warnings,
    thrown,           \* the statement of the try block that threw, "none" if none did
    result,           \* how the call completed: the RepairResult it returned
    first,            \* the first run's argument and result, kept for the second run
    analysis,         \* what analyzeScormPackage made of the archive handed on
    uploadedFiles,    \* BulkScormUploader: files, the upload queue (state of the component)
    isProcessing,     \* BulkScormUploader: state of the component
    queue,            \* processFiles: the files it was called with (the value of files it closed over)
    loopIndex,        \* processFiles: the loop variable i, as an index from 1
    jobIds,           \* processFiles: the job ids collected so far
    onComplete,       \* the calls of the onComplete property, each with its argument
    isValidating,     \* Index: state of the page
    scormFile,        \* Index: state of the page
    repairResult,     \* Index: state of the page
    jobId             \* Index: state of the page

uploaderVars == <<uploadedFiles, isProcessing, queue, loopIndex, jobIds, onComplete>>
indexVars == <<isValidating, scormFile, repairResult, jobId>>

vars == <<file, keepsPartialTree, run, pc, contents, manifestFile, manifestContent,
          xmlDoc, issues, fixes, warnings, thrown, result, first, analysis,
          uploaderVars, indexVars>>

Null == [kind |-> "null"]

\* the state of the two components before anything was uploaded
UploaderIdle ==
    /\ uploadedFiles = <<>>
    /\ isProcessing = FALSE
    /\ queue = <<>>
    /\ loopIndex = 0
    /\ jobIds = <<>>
    /\ onComplete = <<>>

IndexIdle ==
    /\ isValidating = FALSE
    /\ scormFile = Null
    /\ repairResult = Null
    /\ jobId = Null

-----------------------------------------------------------------------------
(* Bounds of the model *)

MaxEntries == 3      \* entries of an input archive
MaxResources == 2    \* resource elements of an input manifest
MaxQueue == 2        \* files of the upload queue
MaxCalls == 2        \* calls of processFiles

-----------------------------------------------------------------------------
(* Strings *)

UpperCase == <<"A","B","C","D","E","F","G","H","I","J","K","L","M",
               "N","O","P","Q","R","S","T","U","V","W","X","Y","Z">>
LowerCase == <<"a","b","c","d","e","f","g","h","i","j","k","l","m",
               "n","o","p","q","r","s","t","u","v","w","x","y","z">>

LowerChar(c) ==
    IF \E k \in DOMAIN UpperCase : UpperCase[k] = c
    THEN LowerCase[CHOOSE k \in DOMAIN UpperCase : UpperCase[k] = c]
    ELSE c

\* String.prototype.toLowerCase
ToLowerCase(s) == SubSeq([i \in DOMAIN s |-> LowerChar(s[i])], 1, Len(s))

\* String.prototype.endsWith
EndsWith(s, suffix) ==
    /\ Len(s) >= Len(suffix)
    /\ SubSeq(s, Len(s) - Len(suffix) + 1, Len(s)) = suffix

\* String.prototype.includes
Includes(s, sub) ==
    \E i \in 1..(Len(s) - Len(sub) + 1) : SubSeq(s, i, i + Len(sub) - 1) = sub

\* s.split('.')[0]
SplitDotFirst(s) ==
    LET dots == {i \in DOMAIN s : s[i] = "."}
    IN  IF dots = {} THEN s
        ELSE SubSeq(s, 1, (CHOOSE i \in dots : \A j \in dots : i <= j) - 1)

\* Array.prototype.filter over an array of strings
Filter(arr, keep) ==
    LET kept == {i \in DOMAIN arr : arr[i] \in keep}
    IN  [k \in 1..Cardinality(kept) |->
            arr[CHOOSE i \in kept : Cardinality({j \in kept : j < i}) = k - 1]]

Range(s) == {s[i] : i \in DOMAIN s}

\* the literals of the source
ManifestName == <<"i","m","s","m","a","n","i","f","e","s","t",".","x","m","l">>
DotHtml == <<".","h","t","m","l">>
DotHtm == <<".","h","t","m">>
DotSwf == <<".","s","w","f">>
IndexHtml == <<"i","n","d","e","x",".","h","t","m","l">>
ScormDriverJs == <<"s","c","o","r","m","d","r","i","v","e","r",".","j","s">>
ApiBridgeJs == <<"a","p","i","b","r","i","d","g","e",".","j","s">>
ScormJs == <<"s","c","o","r","m",".","j","s">>
Text2004 == <<"2","0","0","4">>
Text12 == <<"1",".","2">>
Ampersand == <<"&">>
XmlnsImscp12 == <<"h","t","t","p",":","/","/","w","w","w",".","i","m","s","p","r","o","j","e","c","t",".","o","r","g","/","x","s","d","/","i","m","s","c","p","_","r","o","o","t","v","1","p","1","p","2">>

\* names and texts of the input archives
ManifestUpper == <<"I","M","S","M","a","n","i","f","e","s","t",".","x","m","l">>
QandAHtm == <<"Q","&","A",".","H","T","M">>
MovieSwf == <<"m","o","v","i","e",".","s","w","f">>
Schema2004 == <<"2","0","0","4"," ","3","r","d"," ","E","d","i","t","i","o","n">>
XmlnsImscp2004 == <<"h","t","t","p",":","/","/","w","w","w",".","i","m","s","g","l","o","b","a","l",".","o","r","g","/","x","s","d","/","i","m","s","c","p","_","v","1","p","1">>

\* f.toLowerCase().endsWith('.html') || f.toLowerCase().endsWith('.htm')
IsMarkup(f) == EndsWith(ToLowerCase(f), DotHtml) \/ EndsWith(ToLowerCase(f), DotHtm)

-----------------------------------------------------------------------------
(* XML texts and documents.                                                *)
(*                                                                         *)
(* A manifest text is the record of what a conforming parser reads from    *)
(* it (schemaversion, the root's xmlns, whether the root declares the      *)
(* adlcp prefix, the organization's items, the resources section and its   *)
(* resource elements) together with its defects:                           *)
(*   "amp"    an ampersand that starts no entity;                          *)
(*   "tag"    any other error of syntax;                                   *)
(*   "prefix" an attribute whose prefix no element in scope declares.      *)
(* errorAt is the resource element in whose start tag the first error of   *)
(* syntax lies (Len(resources) + 1: after the last one; 0 when there is    *)
(* none). errElem says that the text holds a parsererror element: it is    *)
(* the serialization of an error document.                                 *)
(***************************************************************************)

NoText == [kind |-> "none"]
NoDoc == [kind |-> "none"]
EmptyString == <<>>

XmlText(defects, errorAt, errElem, adlcp, hasSection, resources, schemaversion, xmlns, orgTitle, items) ==
    [kind |-> "xml", defects |-> defects, errorAt |-> errorAt, errElem |-> errElem,
     adlcp |-> adlcp, hasSection |-> hasSection, resources |-> resources,
     schemaversion |-> schemaversion, xmlns |-> xmlns, orgTitle |-> orgTitle, items |-> items]

Resource(identifier, href) == [identifier |-> identifier, href |-> href]
Item(identifier, identifierref, title, children) ==
    [identifier |-> identifier, identifierref |-> identifierref, title |-> title,
     children |-> children]

\* DOMParser.parseFromString(text, 'text/xml'). A text with a defect gives an
\* error document. One parser (partial = FALSE) gives the parsererror element
\* alone. The other (partial = TRUE) puts the parsererror element beside what
\* it read: the elements before an error of syntax, where it stops; the whole
\* document when the only defect is an undeclared prefix, at which it does not
\* stop.
ParseFromString(text, partial) ==
    IF text.defects = {}
    THEN [kind |-> "doc", parsererror |-> text.errElem, adlcp |-> text.adlcp,
          unbound |-> FALSE, hasSection |-> text.hasSection,
          resources |-> text.resources, schemaversion |-> text.schemaversion,
          xmlns |-> text.xmlns, orgTitle |-> text.orgTitle, items |-> text.items]
    ELSE IF partial
    THEN [kind |-> "doc", parsererror |-> TRUE, adlcp |-> text.adlcp,
          unbound |-> "prefix" \in text.defects, hasSection |-> text.hasSection,
          resources |-> IF text.defects = {"prefix"} THEN text.resources
                        ELSE SubSeq(text.resources, 1, text.errorAt - 1),
          schemaversion |-> text.schemaversion, xmlns |-> text.xmlns,
          orgTitle |-> text.orgTitle, items |-> text.items]
    ELSE [kind |-> "doc", parsererror |-> TRUE, adlcp |-> FALSE, unbound |-> FALSE,
          hasSection |-> FALSE, resources |-> <<>>,
          schemaversion |-> EmptyString, xmlns |-> EmptyString,
          orgTitle |-> "", items |-> <<>>]

\* xmlDoc.querySelector('parsererror')
HasParseError(doc) == doc.parsererror

\* XMLSerializer.serializeToString: the text of the document, in which names
\* are written as they are and text is escaped
SerializeToString(doc) ==
    XmlText(IF doc.unbound THEN {"prefix"} ELSE {}, 0, doc.parsererror, doc.adlcp,
            doc.hasSection, doc.resources, doc.schemaversion, doc.xmlns, doc.orgTitle,
            doc.items)

\* manifestContent.replace(/&(?!amp;|lt;|gt;|quot;|apos;)/g, '&amp;')
\*                .replace(/<([^>]+)>([^<]*)<\/\1\s*>/g, '<$1>$2</$1>'):
\* the first escapes every ampersand that starts no entity; the second only
\* drops white space from end tags, which repairs nothing.
FixCommonXmlIssues(text) ==
    [text EXCEPT !.defects = @ \ {"amp"},
                 !.errorAt = IF text.defects \subseteq {"amp"} THEN 0 ELSE @]

-----------------------------------------------------------------------------
(* Archives: the entries of a zip file, in enumeration order *)

Entry(name, data) == [name |-> name, data |-> data]
Opaque(name) == [kind |-> "bytes", of |-> name]

\* Object.keys(contents.files)
ZipKeys(zip) == [i \in DOMAIN zip |-> zip[i].name]

\* contents.file(name): the entry of that exact name, 0 for null
ZipFile(zip, name) ==
    IF \E i \in DOMAIN zip : zip[i].name = name
    THEN CHOOSE i \in DOMAIN zip : zip[i].name = name
    ELSE 0

\* A variant of contents.file(name, data) in which the entry replaces the first
\* one, whatever its name: a write that touches another entry.
ZipFileWriteFirst(zip, name, data) ==
    IF zip = <<>> THEN <<Entry(name, data)>>
    ELSE [zip EXCEPT ![1] = Entry(name, data)]

\* contents.file(name, data): replaces the entry of that name where it stands,
\* or adds it at the end
ZipFileWrite(zip, name, data) ==
    IF ZipFile(zip, name) # 0
    THEN [zip EXCEPT ![ZipFile(zip, name)] = Entry(name, data)]
    ELSE Append(zip, Entry(name, data))

\* files.find(f => ...): the index of the first element in keep, 0 for undefined
FindIndex(arr, keep) ==
    IF \E i \in DOMAIN arr : arr[i] \in keep
    THEN CHOOSE i \in DOMAIN arr : arr[i] \in keep /\ \A j \in 1..(i - 1) : arr[j] \notin keep
    ELSE 0

Message(text, args) == [text |-> text, args |-> args]

-----------------------------------------------------------------------------
(* createBasicManifest and addEntryPointToManifest *)

\* The template literal of createBasicManifest puts the file name between the
\* quotes of href as it is: a name with an ampersand gives a text that is not
\* well-formed, the error lying in the start tag of the one resource.
CreateBasicManifest(files) ==
    LET found == FindIndex(files, {f \in Range(files) : IsMarkup(f)})
        htmlFile == IF found # 0 THEN files[found] ELSE IndexHtml
        raw == Includes(htmlFile, Ampersand)
    IN  XmlText(IF raw THEN {"amp"} ELSE {}, IF raw THEN 1 ELSE 0, FALSE, TRUE, TRUE,
                <<Resource("resource_1", htmlFile)>>,
                Text12, XmlnsImscp12, "SCORM Content",
                <<Item("item_1", "resource_1", "Main Content", <<>>)>>)

\* The new resource goes before the first child of the resources section, which
\* is created at the end of the document element when there is none. Its
\* attribute adlcp:scormtype is set by name: an attribute of no namespace, whose
\* prefix is declared in the text only if the document declares it.
AddEntryPointToManifest(content, entryPoint, partial) ==
    LET doc == ParseFromString(content, partial)
    IN  SerializeToString([doc EXCEPT
            !.hasSection = TRUE,
            !.unbound = @ \/ ~doc.adlcp,
            !.resources = <<Resource("resource_1", entryPoint)>> \o @])

-----------------------------------------------------------------------------
(* The checks of validateAndRepairScormPackage. Each takes and gives the   *)
(* record st of what the call holds: the working copy and the three lists. *)

NoFile == [present |-> FALSE]
NoHandle == [found |-> FALSE]
Pending == [kind |-> "pending"]

\* The three lookups of the manifest presence check
ManifestPresenceCheck(st) ==
    LET files == ZipKeys(st.contents)
        manifestMatch == FindIndex(files, {f \in Range(files) : ToLowerCase(f) = ManifestName})
        missing == Append(st.issues, Message("Missing imsmanifest.xml", <<>>))
    IN  IF ZipFile(st.contents, ManifestName) # 0
        THEN [st EXCEPT !.manifestFile = [found |-> TRUE, name |-> ManifestName]]
        ELSE IF manifestMatch # 0
        THEN [st EXCEPT
                !.manifestFile = [found |-> TRUE, name |-> files[manifestMatch]],
                !.issues = missing,
                !.fixes = Append(@, Message("Found manifest with different case",
                                            <<files[manifestMatch]>>))]
        ELSE [st EXCEPT
                !.contents = ZipFileWrite(@, ManifestName, CreateBasicManifest(files)),
                !.issues = missing,
                !.fixes = Append(@, Message("Created basic SCORM 1.2 manifest", <<>>))]

\* The well-formedness check and its textual repair
WellFormednessCheck(st, content, partial) ==
    LET fixedXml == FixCommonXmlIssues(content)
        malformed == Append(st.issues, Message("Malformed XML in manifest", <<>>))
    IN  IF ~HasParseError(ParseFromString(content, partial)) THEN st
        ELSE IF ~HasParseError(ParseFromString(fixedXml, partial))
        THEN [st EXCEPT
                !.contents = ZipFileWrite(@, ManifestName, fixedXml),
                !.issues = malformed,
                !.fixes = Append(@, Message("Fixed XML encoding issues in manifest", <<>>))]
        ELSE [st EXCEPT !.issues = malformed]

\* The resources section check
ResourceSectionCheck(st, doc) ==
    IF Len(doc.resources) = 0
    THEN [st EXCEPT
            !.issues = Append(@, Message("No resources defined in manifest", <<>>)),
            !.warnings = Append(@, Message("Package may not have proper resource definitions",
                                           <<>>))]
    ELSE st

\* The files offered in place of an entry point that is not there
PossibleFiles(zip, href) ==
    Filter(ZipKeys(zip),
           {f \in Range(ZipKeys(zip)) :
                \/ Includes(ToLowerCase(f), SplitDotFirst(ToLowerCase(href)))
                \/ EndsWith(ToLowerCase(f), DotHtml)
                \/ EndsWith(ToLowerCase(f), DotHtm)})

\* The loop over the resources, from resources[i] on: it stops at the first
\* href that names an entry of the working copy.
RECURSIVE EntryPointLoop(_, _, _)
EntryPointLoop(st, resources, i) ==
    IF i > Len(resources) THEN st
    ELSE LET href == resources[i].href
             possibleFiles == PossibleFiles(st.contents, href)
         IN  IF href = EmptyString THEN EntryPointLoop(st, resources, i + 1)
             ELSE IF ZipFile(st.contents, href) # 0
             THEN [st EXCEPT !.hasValidEntry = TRUE]
             ELSE EntryPointLoop(
                    [st EXCEPT
                        !.issues = Append(@, Message("Entry point not found", <<href>>)),
                        !.warnings = IF Len(possibleFiles) > 0
                                     THEN Append(@, Message("Possible alternative entry",
                                                            <<possibleFiles[1]>>))
                                     ELSE @],
                    resources, i + 1)

\* The default entry point, when the loop found none
DefaultEntryPoint(st, content, partial) ==
    LET htmlFiles == Filter(ZipKeys(st.contents),
                            {f \in Range(ZipKeys(st.contents)) : IsMarkup(f)})
    IN  IF st.hasValidEntry THEN st
        ELSE IF Len(htmlFiles) > 0
        THEN [st EXCEPT
                !.fixes = Append(@, Message("Set default entry point", <<htmlFiles[1]>>)),
                !.contents = ZipFileWrite(@, ManifestName,
                                AddEntryPointToManifest(content, htmlFiles[1], partial))]
        ELSE [st EXCEPT
                !.issues = Append(@, Message("No HTML entry point found in package", <<>>))]

\* The common runtime files
RuntimeFilesCheck(st) ==
    LET commonFiles == <<ScormDriverJs, ApiBridgeJs, ScormJs>>
        missingRuntimeFiles ==
            Filter(commonFiles, {f \in Range(commonFiles) : ZipFile(st.contents, f) = 0})
    IN  IF Len(missingRuntimeFiles) > 0
        THEN [st EXCEPT
                !.warnings = Append(@, Message("Missing common SCORM runtime files",
                                               missingRuntimeFiles))]
        ELSE st

\* The content presence check
HasContent(zip) ==
    \E f \in Range(ZipKeys(zip)) :
        \/ EndsWith(ToLowerCase(f), DotHtml)
        \/ EndsWith(ToLowerCase(f), DotHtm)
        \/ EndsWith(ToLowerCase(f), DotSwf)

ContentPresenceCheck(st) ==
    IF ~HasContent(st.contents)
    THEN [st EXCEPT
            !.issues = Append(@, Message("No content files (HTML/SWF) found in package", <<>>))]
    ELSE st

\* The two return statements of the try block
RepairedResult(st, name) ==
    [kind |-> "returned", success |-> TRUE,
     repairedFile |-> [present |-> TRUE, name |-> name, entries |-> st.contents],
     issues |-> st.issues, fixes |-> st.fixes, warnings |-> st.warnings]

PlainResult(st) ==
    [kind |-> "returned", success |-> (Len(st.issues) = 0), repairedFile |-> NoFile,
     issues |-> st.issues, fixes |-> st.fixes, warnings |-> st.warnings]

\* A variant of the catch block that throws the error on.
CatchBlockRethrows(st, message) ==
    [kind |-> "raised", success |-> FALSE, repairedFile |-> NoFile,
     issues |-> st.issues, fixes |-> st.fixes, warnings |-> st.warnings]

\* The catch block: the error's message joins the issues
CatchBlock(st, message) ==
    [kind |-> "returned", success |-> FALSE, repairedFile |-> NoFile,
     issues |-> Append(st.issues, message), fixes |-> st.fixes, warnings |-> st.warnings]

-----------------------------------------------------------------------------
(* The manifest part of analyzeScormPackage *)

\* A variant of detectScormVersion that compares the schemaversion text where
\* the code searches it.
DetectScormVersionExact(doc) ==
    IF doc.schemaversion = Text2004 THEN "SCORM 2004"
    ELSE IF doc.schemaversion = Text12 THEN "SCORM 1.2"
    ELSE IF Includes(doc.xmlns, Text2004) THEN "SCORM 2004"
    ELSE IF Includes(doc.xmlns, Text12) THEN "SCORM 1.2"
    ELSE "Unknown"

\* A variant of detectScormVersion that looks at the xmlns attribute first.
DetectScormVersionNamespaceFirst(doc) ==
    IF Includes(doc.xmlns, Text2004) THEN "SCORM 2004"
    ELSE IF Includes(doc.xmlns, Text12) THEN "SCORM 1.2"
    ELSE IF Includes(doc.schemaversion, Text2004) THEN "SCORM 2004"
    ELSE IF Includes(doc.schemaversion, Text12) THEN "SCORM 1.2"
    ELSE "Unknown"

\* detectScormVersion: the schemaversion text is searched for '2004' and '1.2',
\* then the xmlns attribute of the manifest element
DetectScormVersion(doc) ==
    IF Includes(doc.schemaversion, Text2004) THEN "SCORM 2004"
    ELSE IF Includes(doc.schemaversion, Text12) THEN "SCORM 1.2"
    ELSE IF Includes(doc.xmlns, Text2004) THEN "SCORM 2004"
    ELSE IF Includes(doc.xmlns, Text12) THEN "SCORM 1.2"
    ELSE "Unknown"

\* a property that is undefined, or has a value
Undefined == [defined |-> FALSE]
Defined(value) == [defined |-> TRUE, value |-> value]

\* extractItem: children is undefined for an item without child items
RECURSIVE ExtractItem(_, _)
ExtractItem(item, level) ==
    LET children == [i \in DOMAIN item.children |-> ExtractItem(item.children[i], level + 1)]
    IN  [identifier |-> item.identifier, identifierref |-> item.identifierref,
         title |-> item.title, level |-> level,
         children |-> IF Len(children) > 0 THEN Defined(children) ELSE Undefined]

\* the item elements below an item, in document order
RECURSIVE Descendants(_)
Descendants(items) ==
    IF items = <<>> THEN <<>>
    ELSE <<items[1]>> \o Descendants(items[1].children) \o Descendants(Tail(items))

\* A variant of extractStructure that selects every item below an organization
\* ('organization item') for the root list.
ExtractStructureDescendants(doc) ==
    LET items == Descendants(doc.items)
    IN  [i \in DOMAIN items |-> ExtractItem(items[i], 0)]

\* extractStructure: the items selected by 'organizations > organization > item',
\* each extracted at level 0
ExtractStructure(doc) == [i \in DOMAIN doc.items |-> ExtractItem(doc.items[i], 0)]

ExtractResources(doc) ==
    [i \in DOMAIN doc.resources |->
        [identifier |-> doc.resources[i].identifier, href |-> doc.resources[i].href]]

\* resources.map(r => r.href).filter(Boolean)
EntryPoints(resources) ==
    Filter([i \in DOMAIN resources |-> resources[i].href],
           {resources[i].href : i \in DOMAIN resources} \ {EmptyString})

\* io: the read of the archive that fails in this call, "none" if none does
AnalyzeScormPackage(entries, partial, io) ==
    LET manifestIndex == ZipFile(entries, ManifestName)
        doc == ParseFromString(entries[manifestIndex].data, partial)
    IN  IF io = "loadAsync" THEN [kind |-> "threw", error |-> "read failure"]
        ELSE IF manifestIndex = 0 THEN [kind |-> "threw", error |-> "No imsmanifest.xml found"]
        ELSE IF io = "manifestFile.async" THEN [kind |-> "threw", error |-> "read failure"]
        ELSE [kind |-> "analysis", format |-> "SCORM",
              version |-> DetectScormVersion(doc),
              structure |-> ExtractStructure(doc),
              resources |-> ExtractResources(doc),
              entryPoints |-> EntryPoints(ExtractResources(doc))]

-----------------------------------------------------------------------------
(* The input archives *)

Hrefs == {IndexHtml, QandAHtm, EmptyString}

ResourceLists ==
    UNION {{[i \in 1..n |-> Resource("resource_" \o ToString(i), h[i])] : h \in [1..n -> Hrefs]}
           : n \in 0..MaxResources}

\* What the manifests say beside their resources: two SCORM courses, and a
\* plain content package, whose manifest does not declare the adlcp prefix.
Schema114 == <<"1",".","1",".","4">>
Course2004 ==
    [schemaversion |-> Schema2004, xmlns |-> XmlnsImscp2004, adlcp |-> TRUE,
     orgTitle |-> "Course",
     items |-> <<Item("A", "resource_1", "Lesson A", <<>>),
                 Item("B", "resource_1", "Lesson B", <<>>)>>]
Course12 ==
    [schemaversion |-> Text12, xmlns |-> XmlnsImscp12, adlcp |-> TRUE,
     orgTitle |-> "Course",
     items |-> <<Item("A", "resource_1", "Lesson A", <<>>),
                 Item("B", "resource_2", "Lesson B",
                      <<Item("C", "resource_2", "Lesson C", <<>>)>>)>>]
ContentPackage ==
    [schemaversion |-> Schema114, xmlns |-> XmlnsImscp2004, adlcp |-> FALSE,
     orgTitle |-> "Package",
     items |-> <<Item("A", "resource_1", "Page A", <<>>)>>]

ManifestOf(defects, hasSection, resources, course) ==
    XmlText(defects, IF defects = {} THEN 0 ELSE Len(resources) + 1, FALSE, course.adlcp,
            hasSection, resources, course.schemaversion, course.xmlns, course.orgTitle,
            course.items)

\* The lists of up to MaxResources resources come with the 2004 course; the
\* other manifests have at most one resource.
ShortLists == {rs \in ResourceLists : Len(rs) <= 1}

WellFormedManifests ==
    {ManifestOf({}, TRUE, rs, Course2004) : rs \in ResourceLists}
        \cup {ManifestOf({}, TRUE, rs, c) : rs \in ShortLists, c \in {Course12, ContentPackage}}
        \cup {ManifestOf({}, FALSE, <<>>, Course12)}

MalformedManifests ==
    {ManifestOf({d}, TRUE, rs, Course12) : d \in {"amp", "tag"}, rs \in ShortLists}

InputManifests == WellFormedManifests \cup MalformedManifests

EntryNames == {ManifestName, ManifestUpper, IndexHtml, QandAHtm, MovieSwf}

NameLists ==
    UNION {{ns \in [1..n -> EntryNames] : \A i, j \in 1..n : ns[i] = ns[j] => i = j}
           : n \in 0..MaxEntries}

\* An archive holds one manifest text, under every name that is the manifest's
\* but for its case.
ArchiveOf(names, manifest) ==
    [i \in DOMAIN names |->
        Entry(names[i], IF ToLowerCase(names[i]) = ManifestName THEN manifest
                        ELSE Opaque(names[i]))]

InputFiles ==
    {[name |-> "course.zip", entries |-> ArchiveOf(ns, m)] : ns \in NameLists, m \in InputManifests}

-----------------------------------------------------------------------------
(* The state machine *)

St ==
    [contents |-> contents, manifestFile |-> manifestFile, issues |-> issues,
     fixes |-> fixes, warnings |-> warnings, hasValidEntry |-> FALSE]

\* The parser's choice shows only when a text fails to parse: a manifest of the
\* archive that is not well-formed, one that does not declare the adlcp prefix
\* (after the default entry point is added to it), or the one made for an
\* archive without any.
ParserChoiceShows(f) ==
    \A i \in DOMAIN f.entries :
        ToLowerCase(f.entries[i].name) = ManifestName =>
            (f.entries[i].data.defects # {} \/ ~f.entries[i].data.adlcp)

Init ==
    /\ UploaderIdle
    /\ IndexIdle
    /\ file \in InputFiles
    /\ keepsPartialTree \in (IF ParserChoiceShows(file) THEN BOOLEAN ELSE {FALSE})
    /\ run = 1
    /\ pc = "load"
    /\ contents = <<>>
    /\ manifestFile = NoHandle
    /\ manifestContent = NoText
    /\ xmlDoc = NoDoc
    /\ issues = <<>>
    /\ fixes = <<>>
    /\ warnings = <<>>
    /\ thrown = "none"
    /\ result = Pending
    /\ first = [kind |-> "none"]
    /\ analysis = [kind |-> "none"]

\* A statement of the try block throws: the catch block returns.
Catch(site) ==
    LET r == CatchBlock(St, Message("Error", <<>>))
    IN  /\ result' = r
        /\ issues' = r.issues
        /\ thrown' = site
        /\ pc' = "done"
        /\ UNCHANGED <<uploaderVars, indexVars>>
        /\ UNCHANGED <<file, keepsPartialTree, run, contents, manifestFile, manifestContent,
                       xmlDoc, fixes, warnings, first, analysis>>

\* zip.loadAsync(file)
LoadArchive ==
    /\ pc = "load"
    /\ \/ /\ contents' = file.entries
          /\ pc' = "manifest"
          /\ UNCHANGED <<uploaderVars, indexVars>>
          /\ UNCHANGED <<file, keepsPartialTree, run, manifestFile, manifestContent, xmlDoc,
                         issues, fixes, warnings, thrown, result, first, analysis>>
       \/ Catch("loadAsync")

\* Check for manifest
CheckManifest ==
    /\ pc = "manifest"
    /\ LET st == ManifestPresenceCheck(St)
       IN  /\ contents' = st.contents
           /\ manifestFile' = st.manifestFile
           /\ issues' = st.issues
           /\ fixes' = st.fixes
           /\ pc' = IF st.manifestFile.found THEN "validate" ELSE "runtime"
    /\ UNCHANGED <<uploaderVars, indexVars>>
    /\ UNCHANGED <<file, keepsPartialTree, run, manifestContent, xmlDoc, warnings, thrown,
                   result, first, analysis>>

\* Validate manifest structure: manifestFile.async('string'), then the checks
\* of the manifest up to the default entry point
ValidateManifest ==
    /\ pc = "validate"
    /\ \/ LET content == contents[ZipFile(contents, manifestFile.name)].data
              doc == ParseFromString(content, keepsPartialTree)
              st == DefaultEntryPoint(
                        EntryPointLoop(
                            ResourceSectionCheck(
                                WellFormednessCheck(St, content, keepsPartialTree), doc),
                            doc.resources, 1),
                        content, keepsPartialTree)
          IN  /\ manifestContent' = content
              /\ xmlDoc' = doc
              /\ contents' = st.contents
              /\ issues' = st.issues
              /\ fixes' = st.fixes
              /\ warnings' = st.warnings
              /\ pc' = "runtime"
              /\ UNCHANGED <<uploaderVars, indexVars>>
              /\ UNCHANGED <<file, keepsPartialTree, run, manifestFile, thrown, result,
                             first, analysis>>
       \/ Catch("manifestFile.async")

\* Check for common SCORM runtime files, validate file structure
FinalChecks ==
    /\ pc = "runtime"
    /\ LET st == ContentPresenceCheck(RuntimeFilesCheck(St))
       IN  /\ issues' = st.issues
           /\ warnings' = st.warnings
    /\ pc' = "return"
    /\ UNCHANGED <<uploaderVars, indexVars>>
    /\ UNCHANGED <<file, keepsPartialTree, run, contents, manifestFile, manifestContent,
                   xmlDoc, fixes, thrown, result, first, analysis>>

\* Generate repaired file if fixes were made, and return
Return ==
    /\ pc = "return"
    /\ \/ /\ result' = IF Len(fixes) > 0 THEN RepairedResult(St, file.name)
                       ELSE PlainResult(St)
          /\ pc' = "done"
          /\ UNCHANGED <<uploaderVars, indexVars>>
          /\ UNCHANGED <<file, keepsPartialTree, run, contents, manifestFile,
                         manifestContent, xmlDoc, issues, fixes, warnings, thrown, first,
                         analysis>>
       \/ /\ Len(fixes) > 0
          /\ Catch("generateAsync")

\* The repaired archive is validated again.
Revalidate ==
    /\ pc = "done"
    /\ run = 1
    /\ result.kind = "returned"
    /\ result.repairedFile.present
    /\ first' = [kind |-> "run", file |-> file, result |-> result, thrown |-> thrown]
    /\ file' = [name |-> result.repairedFile.name, entries |-> result.repairedFile.entries]
    /\ run' = 2
    /\ pc' = "load"
    /\ contents' = <<>>
    /\ manifestFile' = NoHandle
    /\ manifestContent' = NoText
    /\ xmlDoc' = NoDoc
    /\ issues' = <<>>
    /\ fixes' = <<>>
    /\ warnings' = <<>>
    /\ thrown' = "none"
    /\ result' = Pending
    /\ UNCHANGED <<uploaderVars, indexVars>>
    /\ UNCHANGED <<keepsPartialTree, analysis>>

\* The archive handed on after the caller's validation (the repaired archive when
\* there is one, otherwise the input) is analyzed.
FinalFile ==
    IF result.repairedFile.present THEN result.repairedFile.entries ELSE file.entries

Analyze ==
    /\ pc = "done"
    /\ run = 1
    /\ result.kind = "returned"
    /\ \E io \in {"none", "loadAsync", "manifestFile.async"} :
            analysis' = AnalyzeScormPackage(FinalFile, keepsPartialTree, io)
    /\ pc' = "analyzed"
    /\ UNCHANGED <<uploaderVars, indexVars>>
    /\ UNCHANGED <<file, keepsPartialTree, run, contents, manifestFile, manifestContent,
                   xmlDoc, issues, fixes, warnings, thrown, result, first>>

Next ==
    \/ LoadArchive
    \/ CheckManifest
    \/ ValidateManifest
    \/ FinalChecks
    \/ Return
    \/ Revalidate
    \/ Analyze

Spec == Init /\ [][Next]_vars

-----------------------------------------------------------------------------
(* The manifest steps of analyzeScormPackage, on manifests of every version *)
(* text, namespace and item forest                                         *)

SchemaBoth == <<"1",".","2"," ","t","o"," ","2","0","0","4">>
UrnScorm2004 == <<"u","r","n",":","s","c","o","r","m",":","2","0","0","4">>
UrnScorm12 == <<"u","r","n",":","s","c","o","r","m",":","1",".","2">>

SchemaVersions == {Schema2004, Text12, Schema114, SchemaBoth, EmptyString}
Namespaces == {XmlnsImscp12, XmlnsImscp2004, UrnScorm2004, UrnScorm12, EmptyString}
ItemForests ==
    {<<>>,
     Course2004.items,
     Course12.items,
     <<Item("A", "resource_1", "Lesson A",
            <<Item("B", "resource_1", "Lesson B",
                   <<Item("C", "resource_1", "Lesson C", <<>>)>>)>>)>>,
     <<Item("A", "resource_1", "Lesson A",
            <<Item("B", "resource_1", "Lesson B", <<>>),
              Item("C", "resource_1", "Lesson C", <<>>)>>),
       Item("D", "resource_1", "Lesson D", <<>>)>>}

VersionedManifests ==
    {XmlText({}, 0, FALSE, TRUE, TRUE, <<>>, v, ns, "Course", items) :
        v \in SchemaVersions, ns \in Namespaces, items \in ItemForests}

ManifestInit ==
    /\ UploaderIdle
    /\ IndexIdle
    /\ manifestContent \in VersionedManifests
    /\ xmlDoc = ParseFromString(manifestContent, FALSE)
    /\ pc = "parsed"
    /\ analysis = [kind |-> "none"]
    /\ file = [name |-> "course.zip", entries |-> <<>>]
    /\ keepsPartialTree = FALSE
    /\ run = 1
    /\ contents = <<>>
    /\ manifestFile = NoHandle
    /\ issues = <<>>
    /\ fixes = <<>>
    /\ warnings = <<>>
    /\ thrown = "none"
    /\ result = Pending
    /\ first = [kind |-> "none"]

\* const version = detectScormVersion(xmlDoc)
DetectVersion ==
    /\ pc = "parsed"
    /\ analysis' = [kind |-> "version", version |-> DetectScormVersion(xmlDoc)]
    /\ pc' = "version"
    /\ UNCHANGED <<uploaderVars, indexVars>>
    /\ UNCHANGED <<file, keepsPartialTree, run, contents, manifestFile, manifestContent,
                   xmlDoc, issues, fixes, warnings, thrown, result, first>>

\* const structure = extractStructure(xmlDoc)
ExtractStructureStep ==
    /\ pc = "version"
    /\ analysis' = [kind |-> "structure", version |-> analysis.version,
                    structure |-> ExtractStructure(xmlDoc)]
    /\ pc' = "structure"
    /\ UNCHANGED <<uploaderVars, indexVars>>
    /\ UNCHANGED <<file, keepsPartialTree, run, contents, manifestFile, manifestContent,
                   xmlDoc, issues, fixes, warnings, thrown, result, first>>

ManifestNext ==
    \/ DetectVersion
    \/ ExtractStructureStep

ManifestSpec == ManifestInit /\ [][ManifestNext]_vars

-----------------------------------------------------------------------------
(* categorizeFiles *)

videoExts ==
    <<<<".","m","p","4">>,
      <<".","w","e","b","m">>,
      <<".","o","g","g">>,
      <<".","m","o","v">>,
      <<".","a","v","i">>,
      <<".","w","m","v">>,
      <<".","f","l","v">>,
      <<".","m","4","v">>>>
audioExts ==
    <<<<".","m","p","3">>,
      <<".","w","a","v">>,
      <<".","o","g","g">>,
      <<".","m","4","a">>,
      <<".","a","a","c">>,
      <<".","w","m","a">>,
      <<".","f","l","a","c">>>>
imageExts ==
    <<<<".","j","p","g">>,
      <<".","j","p","e","g">>,
      <<".","p","n","g">>,
      <<".","g","i","f">>,
      <<".","s","v","g">>,
      <<".","w","e","b","p">>,
      <<".","b","m","p">>,
      <<".","i","c","o">>>>
DotJs == <<".","j","s">>
DotCss == <<".","c","s","s">>

\* An entry that is a folder
Folder == [kind |-> "dir"]
IsDir(entry) == entry.data.kind = "dir"

\* the if / else if chain of the forEach callback: the bucket of a file name,
\* "none" for a name that goes to no bucket
AnyEndsWith(lower, exts) == \E i \in DOMAIN exts : EndsWith(lower, exts[i])

\* A variant of the chain that tests the audio extensions before the video ones.
CategoryAudioFirst(filename) ==
    LET lower == ToLowerCase(filename)
    IN  IF EndsWith(lower, DotHtml) \/ EndsWith(lower, DotHtm) THEN "html"
        ELSE IF AnyEndsWith(lower, audioExts) THEN "audio"
        ELSE IF AnyEndsWith(lower, videoExts) THEN "videos"
        ELSE IF AnyEndsWith(lower, imageExts) THEN "images"
        ELSE IF EndsWith(lower, DotJs) THEN "javascript"
        ELSE IF EndsWith(lower, DotCss) THEN "css"
        ELSE IF ~Includes(lower, ManifestName) THEN "other"
        ELSE "none"

Category(filename) ==
    LET lower == ToLowerCase(filename)
    IN  IF EndsWith(lower, DotHtml) \/ EndsWith(lower, DotHtm) THEN "html"
        ELSE IF AnyEndsWith(lower, videoExts) THEN "videos"
        ELSE IF AnyEndsWith(lower, audioExts) THEN "audio"
        ELSE IF AnyEndsWith(lower, imageExts) THEN "images"
        ELSE IF EndsWith(lower, DotJs) THEN "javascript"
        ELSE IF EndsWith(lower, DotCss) THEN "css"
        ELSE IF ~Includes(lower, ManifestName) THEN "other"
        ELSE "none"

\* the names pushed on a bucket by the forEach itself, in enumeration order
Pushed(zip, bucket) ==
    LET files == Filter(zip, {e \in Range(zip) : ~IsDir(e) /\ Category(e.name) = bucket})
    IN  [i \in DOMAIN files |-> files[i].name]

\* the MultimediaFile pushed when the read of a payload completes; the blob of
\* an archive entry has no type
MultimediaFile(filename, defaultType) == [path |-> filename, type |-> defaultType]

ClipOgg == <<"c","l","i","p",".","o","g","g">>
SongMp3 == <<"s","o","n","g",".","m","p","3">>
IntroMp4 == <<"i","n","t","r","o",".","M","P","4">>
LogoPng == <<"l","o","g","o",".","p","n","g">>
AppJs == <<"a","p","p",".","j","s">>
StyleCss == <<"s","t","y","l","e",".","c","s","s">>
ReadmeTxt == <<"r","e","a","d","m","e",".","t","x","t">>
MediaDir == <<"m","e","d","i","a","/">>

ClassifiedNames ==
    {IndexHtml, QandAHtm, ClipOgg, SongMp3, IntroMp4, LogoPng, AppJs, StyleCss, ReadmeTxt,
     MediaDir, ManifestName}

ClassifiedArchives ==
    {[i \in DOMAIN ns |-> Entry(ns[i], IF ns[i] = MediaDir THEN Folder ELSE Opaque(ns[i]))] :
        ns \in {ns \in UNION {[1..n -> ClassifiedNames] : n \in 0..MaxEntries} :
                    \A i, j \in DOMAIN ns : ns[i] = ns[j] => i = j}}

ClassifyInit ==
    /\ UploaderIdle
    /\ IndexIdle
    /\ contents \in ClassifiedArchives
    /\ pc = "categorize"
    /\ analysis = [kind |-> "none"]
    /\ file = [name |-> "course.zip", entries |-> contents]
    /\ keepsPartialTree = FALSE
    /\ run = 1
    /\ manifestFile = NoHandle
    /\ manifestContent = NoText
    /\ xmlDoc = NoDoc
    /\ issues = <<>>
    /\ fixes = <<>>
    /\ warnings = <<>>
    /\ thrown = "none"
    /\ result = Pending
    /\ first = [kind |-> "none"]

\* Object.keys(zip.files).forEach(...): the buckets filled at once, and a read
\* started for every video and audio entry
CategorizeLoop ==
    /\ pc = "categorize"
    /\ analysis' =
        [kind |-> "categories",
         html |-> Pushed(contents, "html"),
         videos |-> <<>>,
         audio |-> <<>>,
         images |-> Pushed(contents, "images"),
         javascript |-> Pushed(contents, "javascript"),
         css |-> Pushed(contents, "css"),
         other |-> Pushed(contents, "other"),
         filePromises |-> {i \in DOMAIN contents :
                              /\ ~IsDir(contents[i])
                              /\ Category(contents[i].name) \in {"videos", "audio"}}]
    /\ pc' = "reading"
    /\ UNCHANGED <<uploaderVars, indexVars>>
    /\ UNCHANGED <<file, keepsPartialTree, run, contents, manifestFile, manifestContent,
                   xmlDoc, issues, fixes, warnings, thrown, result, first>>

\* file.async('blob').then(blob => ...): one of the reads completes
ReadCompletes ==
    /\ pc = "reading"
    /\ \E i \in analysis.filePromises :
        LET filename == contents[i].name
        IN  analysis' =
                IF Category(filename) = "videos"
                THEN [analysis EXCEPT
                        !.videos = Append(@, MultimediaFile(filename, "video/mp4")),
                        !.filePromises = @ \ {i}]
                ELSE [analysis EXCEPT
                        !.audio = Append(@, MultimediaFile(filename, "audio/mpeg")),
                        !.filePromises = @ \ {i}]
    /\ UNCHANGED <<uploaderVars, indexVars>>
    /\ UNCHANGED <<file, keepsPartialTree, run, pc, contents, manifestFile, manifestContent,
                   xmlDoc, issues, fixes, warnings, thrown, result, first>>

\* one of the reads fails: Promise.all rejects and so does categorizeFiles
ReadFails ==
    /\ pc = "reading"
    /\ analysis.filePromises # {}
    /\ analysis' = [kind |-> "threw", error |-> "read failure"]
    /\ pc' = "failed"
    /\ UNCHANGED <<uploaderVars, indexVars>>
    /\ UNCHANGED <<file, keepsPartialTree, run, contents, manifestFile, manifestContent,
                   xmlDoc, issues, fixes, warnings, thrown, result, first>>

\* await Promise.all(filePromises); return categories
CategorizeReturn ==
    /\ pc = "reading"
    /\ analysis.filePromises = {}
    /\ pc' = "categorized"
    /\ UNCHANGED <<uploaderVars, indexVars>>
    /\ UNCHANGED <<file, keepsPartialTree, run, contents, manifestFile, manifestContent,
                   xmlDoc, issues, fixes, warnings, thrown, result, first, analysis>>

ClassifyNext ==
    \/ CategorizeLoop
    \/ ReadCompletes
    \/ ReadFails
    \/ CategorizeReturn

ClassifySpec == ClassifyInit /\ [][ClassifyNext]_vars

-----------------------------------------------------------------------------
(* extractAssessments and the extractors of its strategies                 *)
(*                                                                         *)
(* The content of an entry is what the extractors read in it:               *)
(*   "xmlfile"  the item / assessmentItem elements of an XML text;         *)
(*   "script"   the question arrays, quiz assignments and generic matches  *)
(*              of a script;                                               *)
(*   "markup"   the keyword test and the selected question elements of a   *)
(*              page.                                                      *)
(* Texts are trimmed texts, as sequences of characters.                    *)

\* A variant of the template literal that takes in the time of the run.
IdStamped(prefix, filename, n) == [prefix |-> prefix, filename |-> filename, n |-> n + run]

\* a template literal `${prefix}${filename}_${n}`, or an attribute value
\* (prefix alone)
Id(prefix, filename, n) == [prefix |-> prefix, filename |-> filename, n |-> n]
AttributeId(value) == Id(value, <<>>, 0)

Question(id, text) == [id |-> id, text |-> text]

\* the elements of arr that pass a test, with their indices (forEach with index)
RECURSIVE Indexed(_, _)
Indexed(arr, i) ==
    IF i > Len(arr) THEN <<>> ELSE <<[index |-> i - 1, element |-> arr[i]]>> \o Indexed(arr, i + 1)

\* extractQTIQuestions: one question for every item element
ExtractQTIQuestions(content) ==
    IF content.kind # "xmlfile" THEN <<>>
    ELSE [i \in DOMAIN content.items |->
            LET item == content.items[i]
            IN  Question(IF item.identifier # "" THEN AttributeId(item.identifier)
                         ELSE Id("qti_", <<>>, i),
                         IF item.body # <<>> THEN item.body ELSE item.title)]

\* the questions of the objects of one matched array: those with a text
ArticulateQuestions(array, filename) ==
    LET objects == Indexed(array, 1)
        withText == Filter(objects, {o \in Range(objects) : o.element # <<>>})
    IN  [k \in DOMAIN withText |->
            Question(Id("articulate_", filename, withText[k].index), withText[k].element)]

RECURSIVE ArticulateAll(_, _)
ArticulateAll(arrays, filename) ==
    IF arrays = <<>> THEN <<>>
    ELSE ArticulateQuestions(arrays[1], filename) \o ArticulateAll(Tail(arrays), filename)

\* questions.push({ id: `${prefix}${filename}_${questions.length}`, ... }) for
\* every text of texts
RECURSIVE PushNumbered(_, _, _, _)
PushNumbered(questions, prefix, filename, texts) ==
    IF texts = <<>> THEN questions
    ELSE PushNumbered(Append(questions, Question(Id(prefix, filename, Len(questions)), texts[1])),
                      prefix, filename, Tail(texts))

QuestionMark == "?"

\* extractJavaScriptQuestions
ExtractJavaScriptQuestions(js, filename) ==
    IF js.kind # "script" THEN <<>>
    ELSE LET articulate == IF js.articulate THEN ArticulateAll(js.arrays, filename) ELSE <<>>
             captivate == IF js.captivate
                          THEN PushNumbered(articulate, "captivate_", filename, js.quizzes)
                          ELSE articulate
             generic == Filter(js.generic,
                               {t \in Range(js.generic) :
                                    Len(t) > 20 /\ Includes(t, <<QuestionMark>>)})
         IN  PushNumbered(captivate, "js_generic_", filename, generic)

\* extractQuestionsFromHTML: the selected elements whose text is longer than
\* 10 characters
ExtractQuestionsFromHTML(html) ==
    IF html.kind # "markup" THEN <<>>
    ELSE LET elements == Indexed(html.elements, 1)
             long == Filter(elements, {e \in Range(elements) : Len(e.element) > 10})
         IN  [k \in DOMAIN long |->
                Question(Id("html_q_", <<>>, long[k].index + 1), long[k].element)]

\* the keyword test of the HTML strategy
HasQuiz(content) == content.kind = "markup" /\ content.keyword

\* extractSCORMInteractionQuestions
ExtractSCORMInteractionQuestions(doc) ==
    [i \in DOMAIN doc.interactions |->
        LET interaction == doc.interactions[i]
        IN  Question(IF interaction.id # "" THEN AttributeId(interaction.id)
                     ELSE Id("scorm_interaction_", <<>>, i - 1),
                     IF interaction.description # <<>> THEN interaction.description
                     ELSE <<"I", "n", "t", "e", "r", "a", "c", "t", "i", "o", "n", " ", ToString(i)>>)]

\* A variant of the push of an assessment that leaves out the test of the
\* number of questions.
AssessmentAlways(filename, type, questions) ==
    <<[file |-> filename, type |-> type, questionCount |-> Len(questions),
       questions |-> questions]>>

\* if (questions.length > 0) assessments.push({ file, type, questionCount, questions })
AssessmentOf(filename, type, questions) ==
    IF Len(questions) > 0
    THEN <<[file |-> filename, type |-> type, questionCount |-> Len(questions),
            questions |-> questions]>>
    ELSE <<>>

\* the questions a strategy finds in the content of a file
Finds(type, content, filename) ==
    IF type = "qti" THEN ExtractQTIQuestions(content)
    ELSE IF type = "javascript" THEN ExtractJavaScriptQuestions(content, filename)
    ELSE IF HasQuiz(content) THEN ExtractQuestionsFromHTML(content)
    ELSE <<>>

\* the files a strategy reads, in enumeration order
StrategyFiles(zip, type) ==
    LET keys == ZipKeys(zip)
        wanted ==
            IF type = "qti"
            THEN {f \in Range(keys) :
                    Includes(ToLowerCase(f), <<"q", "t", "i">>) \/ EndsWith(ToLowerCase(f), <<".", "x", "m", "l">>)}
                 \ {ManifestName}
            ELSE IF type = "javascript"
            THEN {f \in Range(keys) : EndsWith(ToLowerCase(f), DotJs)}
            ELSE {f \in Range(keys) : IsMarkup(f)}
    IN  Filter(keys, {f \in wanted : ~IsDir(zip[ZipFile(zip, f)])})

\* the reads of the three loops, in the order in which the loops make them
Reads(zip) ==
    LET of(type) == LET files == StrategyFiles(zip, type)
                    IN  [i \in DOMAIN files |-> [type |-> type, file |-> files[i]]]
    IN  of("qti") \o of("javascript") \o of("html")

\* A variant in which the reads are all started before any is awaited: any of
\* those not done may complete next.
NextReadAny(reads, done) == DOMAIN reads \ done

\* the read awaited next: the loops await each read before they make the next
NextRead(reads, done) ==
    IF DOMAIN reads \ done = {} THEN {}
    ELSE {CHOOSE i \in DOMAIN reads \ done : \A j \in DOMAIN reads \ done : i <= j}

\* The entries of the archives given to extractAssessments, each with the
\* content the extractors read in it
QuizXml == <<"q","u","i","z",".","x","m","l">>
QtiJs == <<"q","t","i",".","j","s">>
QtiDir == <<"q","t","i","/">>

PickOne == <<"P","i","c","k"," ","o","n","e">>
WhatIs == <<"W","h","a","t"," ","i","s"," ","2","+","2","?"," ","_","_","_">>
WhichPlanet == <<"W","h","i","c","h"," ","p","l","a","n","e","t"," ","i","s"," ","t","h","e"," ","l","a","r","g","e","s","t","?">>
Short == <<"Q","1">>
YesOrNo == <<"Y","e","s"," ","o","r"," ","n","o","?">>

Contents(name) ==
    IF name = QuizXml
    THEN [kind |-> "xmlfile",
          items |-> <<[identifier |-> "q1", title |-> <<>>, body |-> PickOne],
                      [identifier |-> "", title |-> PickOne, body |-> <<>>]>>]
    ELSE IF name = ManifestUpper
    THEN [kind |-> "xmlfile", items |-> <<[identifier |-> "A", title |-> <<>>, body |-> <<>>]>>]
    ELSE IF name = QtiJs
    THEN [kind |-> "script", articulate |-> TRUE, arrays |-> <<<<PickOne, <<>>, WhatIs>>, <<WhichPlanet>>>>,
          captivate |-> TRUE, quizzes |-> <<Short>>, generic |-> <<WhichPlanet, Short>>]
    ELSE IF name = AppJs
    THEN [kind |-> "script", articulate |-> FALSE, arrays |-> <<<<PickOne>>>>,
          captivate |-> FALSE, quizzes |-> <<Short>>, generic |-> <<Short>>]
    ELSE IF name = IndexHtml
    THEN [kind |-> "markup", keyword |-> TRUE, elements |-> <<Short, WhatIs, YesOrNo>>]
    ELSE IF name = QandAHtm
    THEN [kind |-> "markup", keyword |-> FALSE, elements |-> <<>>]
    ELSE IF name = QtiDir THEN Folder
    ELSE Opaque(name)

AssessedNames == {QuizXml, ManifestUpper, QtiJs, AppJs, IndexHtml, QandAHtm, QtiDir}

\* the manifest, then up to MaxEntries other entries
AssessedArchives ==
    {<<Entry(ManifestName, Opaque(ManifestName))>> \o [i \in DOMAIN ns |-> Entry(ns[i], Contents(ns[i]))] :
        ns \in {ns \in UNION {[1..n -> AssessedNames] : n \in 0..MaxEntries} :
                    \A i, j \in DOMAIN ns : ns[i] = ns[j] => i = j}}

\* the interaction elements of the parsed manifest
InteractionLists ==
    {<<>>,
     <<[id |-> "i1", description |-> PickOne], [id |-> "", description |-> <<>>]>>}

\* the reads of every archive: the file lists of the loops depend on the names
\* and kinds of the entries alone
ReadsOf == [zip \in AssessedArchives |-> Reads(zip)]

Extracting == [kind |-> "assessments", assessments |-> <<>>, done |-> {}, failed |-> {}]

AssessInit ==
    /\ UploaderIdle
    /\ IndexIdle
    /\ contents \in AssessedArchives
    /\ \E interactions \in InteractionLists :
            xmlDoc = [kind |-> "doc", interactions |-> interactions]
    /\ pc = "extract"
    /\ run = 1
    /\ analysis = Extracting
    /\ first = [kind |-> "none"]
    /\ file = [name |-> "course.zip", entries |-> contents]
    /\ keepsPartialTree = FALSE
    /\ manifestFile = NoHandle
    /\ manifestContent = NoText
    /\ issues = <<>>
    /\ fixes = <<>>
    /\ warnings = <<>>
    /\ thrown = "none"
    /\ result = Pending

\* const content = await file.async('string'), and the rest of the try block
AssessmentRead ==
    /\ pc = "extract"
    /\ \E i \in NextRead(ReadsOf[contents], analysis.done) :
        LET read == ReadsOf[contents][i]
            content == contents[ZipFile(contents, read.file)].data
        IN  analysis' = [analysis EXCEPT
                !.assessments = @ \o AssessmentOf(read.file, read.type,
                                                  Finds(read.type, content, read.file)),
                !.done = @ \cup {i}]
    /\ UNCHANGED <<uploaderVars, indexVars>>
    /\ UNCHANGED <<file, keepsPartialTree, run, pc, contents, manifestFile, manifestContent,
                   xmlDoc, issues, fixes, warnings, thrown, result, first>>

\* A variant of the failing read without the try block of the loops: the error
\* leaves extractAssessments.
AssessmentReadAborts ==
    /\ pc = "extract"
    /\ \E i \in NextRead(ReadsOf[contents], analysis.done) :
        analysis' = [analysis EXCEPT !.done = @ \cup {i}, !.failed = @ \cup {i}]
    /\ pc' = "failed"
    /\ thrown' = "file.async"
    /\ UNCHANGED <<uploaderVars, indexVars>>
    /\ UNCHANGED <<file, keepsPartialTree, run, contents, manifestFile, manifestContent,
                   xmlDoc, issues, fixes, warnings, result, first>>

\* the read fails: the catch block of the loop logs the error
AssessmentReadFails ==
    /\ pc = "extract"
    /\ \E i \in NextRead(ReadsOf[contents], analysis.done) :
        analysis' = [analysis EXCEPT !.done = @ \cup {i}, !.failed = @ \cup {i}]
    /\ UNCHANGED <<uploaderVars, indexVars>>
    /\ UNCHANGED <<file, keepsPartialTree, run, pc, contents, manifestFile, manifestContent,
                   xmlDoc, issues, fixes, warnings, thrown, result, first>>

\* the interactions of the manifest, and return assessments
AssessmentsReturn ==
    /\ pc = "extract"
    /\ analysis.done = DOMAIN ReadsOf[contents]
    /\ analysis' = [analysis EXCEPT
            !.assessments = @ \o AssessmentOf(ManifestName, "scorm",
                                              ExtractSCORMInteractionQuestions(xmlDoc))]
    /\ pc' = "assessed"
    /\ UNCHANGED <<uploaderVars, indexVars>>
    /\ UNCHANGED <<file, keepsPartialTree, run, contents, manifestFile, manifestContent,
                   xmlDoc, issues, fixes, warnings, thrown, result, first>>

\* extractAssessments is called again on the same archive, after a run in
\* which every read succeeded
ExtractAgain ==
    /\ pc = "assessed"
    /\ run = 1
    /\ analysis.failed = {}
    /\ first' = [kind |-> "run", assessments |-> analysis.assessments,
                 failed |-> analysis.failed]
    /\ analysis' = Extracting
    /\ run' = 2
    /\ pc' = "extract"
    /\ UNCHANGED <<uploaderVars, indexVars>>
    /\ UNCHANGED <<file, keepsPartialTree, contents, manifestFile, manifestContent,
                   xmlDoc, issues, fixes, warnings, thrown, result>>

AssessNext ==
    \/ AssessmentRead
    \/ AssessmentReadFails
    \/ AssessmentsReturn
    \/ ExtractAgain

AssessSpec == AssessInit /\ [][AssessNext]_vars

-----------------------------------------------------------------------------
(* BulkScormUploader: the upload queue and processFiles                     *)

\* files chosen in the file dialog
CourseZip == <<"c","o","u","r","s","e",".","z","i","p">>
NotesTxt == <<"n","o","t","e","s",".","t","x","t">>
DotZip == <<".","z","i","p">>

\* the selections of the file dialog: one or two files
Selections ==
    {<<CourseZip>>, <<NotesTxt>>, <<CourseZip, CourseZip>>, <<CourseZip, NotesTxt>>}

\* `${file.name}-${Date.now()}-${Math.random()}`: an id no other file of the
\* queue has, here the least number that is the id of none
NewId(queued) ==
    LET used == {queued[k].id : k \in DOMAIN queued}
    IN  CHOOSE n \in 1..(Len(queued) + 1) : n \notin used /\ \A m \in 1..(n - 1) : m \in used

RECURSIVE AddFiles(_, _)
AddFiles(queued, names) ==
    IF names = <<>> THEN queued
    ELSE AddFiles(Append(queued, [id |-> NewId(queued), name |-> names[1], status |-> "pending",
                                  progress |-> 0, error |-> Null, jobId |-> Null]),
                  Tail(names))

\* setFiles(prev => prev.map(f => f.id === id ? { ...f, ...change } : f)),
\* change being a function from the fields it sets to their values
SetFile(prev, id, change) ==
    [k \in DOMAIN prev |->
        IF prev[k].id = id
        THEN [field \in DOMAIN prev[k] |->
                IF field \in DOMAIN change THEN change[field] ELSE prev[k][field]]
        ELSE prev[k]]

\* job.id: the id the database gives the record inserted for the file at
\* position i in the given call of processFiles
JobId(call, i) == [call |-> call, row |-> i]

UploaderInit ==
    /\ UploaderIdle
    /\ IndexIdle
    /\ pc = "idle"
    /\ run = 0
    /\ file = [name |-> "none", entries |-> <<>>]
    /\ keepsPartialTree = FALSE
    /\ contents = <<>>
    /\ manifestFile = NoHandle
    /\ manifestContent = NoText
    /\ xmlDoc = NoDoc
    /\ issues = <<>>
    /\ fixes = <<>>
    /\ warnings = <<>>
    /\ thrown = "none"
    /\ result = Pending
    /\ first = [kind |-> "none"]
    /\ analysis = [kind |-> "none"]

packageVars == <<file, keepsPartialTree, contents, manifestFile, manifestContent, xmlDoc,
               issues, fixes, warnings, thrown, result, first, analysis>>

\* handleFileSelect: the input is disabled while isProcessing
HandleFileSelect ==
    /\ ~isProcessing
    /\ \E selectedFiles \in Selections :
        LET zipFiles == Filter(selectedFiles, {f \in Range(selectedFiles) : EndsWith(f, DotZip)})
        IN  /\ Len(uploadedFiles) + Len(zipFiles) <= MaxQueue
            /\ uploadedFiles' = AddFiles(uploadedFiles, zipFiles)
    /\ UNCHANGED <<isProcessing, queue, loopIndex, jobIds, onComplete, pc, run>>
    /\ UNCHANGED <<packageVars, indexVars>>

\* removeFile: the button is shown for a pending file while not isProcessing
RemoveFile ==
    /\ ~isProcessing
    /\ \E k \in DOMAIN uploadedFiles :
        /\ uploadedFiles[k].status = "pending"
        /\ uploadedFiles' = Filter(uploadedFiles,
                                   {f \in Range(uploadedFiles) : f.id # uploadedFiles[k].id})
    /\ UNCHANGED <<isProcessing, queue, loopIndex, jobIds, onComplete, pc, run>>
    /\ UNCHANGED <<packageVars, indexVars>>

\* processFiles, up to its loop: the button is shown when the queue is not
\* empty and is disabled while isProcessing
ProcessFiles ==
    /\ ~isProcessing
    /\ Len(uploadedFiles) > 0
    /\ run < MaxCalls
    /\ run' = run + 1
    /\ isProcessing' = TRUE
    /\ jobIds' = <<>>
    /\ queue' = uploadedFiles
    /\ loopIndex' = 1
    /\ pc' = "loop"
    /\ UNCHANGED <<uploadedFiles, onComplete>>
    /\ UNCHANGED <<packageVars, indexVars>>

\* the loop takes the next file: status 'uploading', and the upload starts
StartUpload ==
    /\ pc = "loop"
    /\ loopIndex <= Len(queue)
    /\ uploadedFiles' = SetFile(uploadedFiles, queue[loopIndex].id,
                                [status |-> "uploading", progress |-> 10])
    /\ pc' = "upload"
    /\ UNCHANGED <<isProcessing, queue, loopIndex, jobIds, onComplete, run>>
    /\ UNCHANGED <<packageVars, indexVars>>

\* the upload returns without uploadError: status 'analyzing', and
\* analyzeScormPackage starts
UploadCompletes ==
    /\ pc = "upload"
    /\ uploadedFiles' = SetFile(SetFile(uploadedFiles, queue[loopIndex].id, [progress |-> 40]),
                                queue[loopIndex].id,
                                [status |-> "analyzing", progress |-> 60])
    /\ pc' = "analyze"
    /\ UNCHANGED <<isProcessing, queue, loopIndex, jobIds, onComplete, run>>
    /\ UNCHANGED <<packageVars, indexVars>>

\* analyzeScormPackage returns an analysis, and the insert of the job starts
AnalysisCompletes ==
    /\ pc = "analyze"
    /\ pc' = "insert"
    /\ UNCHANGED <<uploadedFiles, isProcessing, queue, loopIndex, jobIds, onComplete, run>>
    /\ UNCHANGED <<packageVars, indexVars>>

\* the insert returns the job: its id is collected and the file is 'complete'
InsertCompletes ==
    /\ pc = "insert"
    /\ jobIds' = Append(jobIds, JobId(run, loopIndex))
    /\ uploadedFiles' = SetFile(uploadedFiles, queue[loopIndex].id,
                                [status |-> "complete", progress |-> 100,
                                 jobId |-> JobId(run, loopIndex)])
    /\ loopIndex' = loopIndex + 1
    /\ pc' = "loop"
    /\ UNCHANGED <<isProcessing, queue, onComplete, run>>
    /\ UNCHANGED <<packageVars, indexVars>>

\* A variant of the catch block placed around the loop: the first failure is
\* also the end of the loop.
FileFailsEndsLoop ==
    /\ pc \in {"upload", "analyze", "insert"}
    /\ uploadedFiles' = SetFile(uploadedFiles, queue[loopIndex].id,
                                [status |-> "error", error |-> [kind |-> "error", message |-> pc]])
    /\ loopIndex' = Len(queue) + 1
    /\ pc' = "loop"
    /\ UNCHANGED <<isProcessing, queue, jobIds, onComplete, run>>
    /\ UNCHANGED <<packageVars, indexVars>>

\* the upload returns an uploadError, analyzeScormPackage throws, or the insert
\* returns a jobError or no job: the catch block of the loop body
FileFails ==
    /\ pc \in {"upload", "analyze", "insert"}
    /\ uploadedFiles' = SetFile(uploadedFiles, queue[loopIndex].id,
                                [status |-> "error", error |-> [kind |-> "error", message |-> pc]])
    /\ loopIndex' = loopIndex + 1
    /\ pc' = "loop"
    /\ UNCHANGED <<isProcessing, queue, jobIds, onComplete, run>>
    /\ UNCHANGED <<packageVars, indexVars>>

\* after the loop: setIsProcessing(false), and onComplete?.(jobIds) when a job
\* was created
ProcessFilesReturns ==
    /\ pc = "loop"
    /\ loopIndex > Len(queue)
    /\ isProcessing' = FALSE
    /\ onComplete' = IF Len(jobIds) > 0 THEN Append(onComplete, jobIds) ELSE onComplete
    /\ pc' = "idle"
    /\ UNCHANGED <<uploadedFiles, queue, loopIndex, jobIds, run>>
    /\ UNCHANGED <<packageVars, indexVars>>

UploaderNext ==
    \/ HandleFileSelect
    \/ RemoveFile
    \/ ProcessFiles
    \/ StartUpload
    \/ UploadCompletes
    \/ AnalysisCompletes
    \/ InsertCompletes
    \/ FileFails
    \/ ProcessFilesReturns

UploaderSpec == UploaderInit /\ [][UploaderNext]_vars

-----------------------------------------------------------------------------
(* Index: handleFileUpload                                                  *)

\* the files uploaded: an archive without a manifest and one with a manifest
UploadedArchives ==
    {[name |-> "course.zip", entries |-> <<Entry(IndexHtml, Opaque(IndexHtml))>>],
     [name |-> "course.zip",
      entries |-> <<Entry(ManifestName, CreateBasicManifest(<<IndexHtml>>)),
                    Entry(IndexHtml, Opaque(IndexHtml))>>]}

\* the RepairResults validateAndRepairScormPackage can return for a file, by
\* its three return statements
RepairResults(f) ==
    LET lists(m) == {<<>>, <<Message(m, <<>>)>>}
        repaired == ZipFileWrite(f.entries, ManifestName,
                                 AddEntryPointToManifest(CreateBasicManifest(<<IndexHtml>>),
                                                         IndexHtml, FALSE))
        sts == {[contents |-> repaired, manifestFile |-> NoHandle, issues |-> i,
                 fixes |-> x, warnings |-> w, hasValidEntry |-> FALSE] :
                    i \in lists("Missing imsmanifest.xml"),
                    x \in lists("Created basic SCORM 1.2 manifest"),
                    w \in lists("Missing common SCORM runtime files")}
    IN  {IF Len(st.fixes) > 0 THEN RepairedResult(st, f.name) ELSE PlainResult(st) : st \in sts}
        \cup {CatchBlock(st, Message("Error", <<>>)) : st \in sts}

IndexInit ==
    /\ UploaderIdle
    /\ IndexIdle
    /\ file \in UploadedArchives
    /\ pc = "idle"
    /\ run = 1
    /\ keepsPartialTree = FALSE
    /\ contents = <<>>
    /\ manifestFile = NoHandle
    /\ manifestContent = NoText
    /\ xmlDoc = NoDoc
    /\ issues = <<>>
    /\ fixes = <<>>
    /\ warnings = <<>>
    /\ thrown = "none"
    /\ result = Pending
    /\ first = [kind |-> "none"]
    /\ analysis = [kind |-> "none"]

\* handleFileUpload(file), up to the call of validateAndRepairScormPackage
HandleFileUpload ==
    /\ pc = "idle"
    /\ isValidating' = TRUE
    /\ pc' = "validating"
    /\ UNCHANGED <<scormFile, repairResult, jobId>>
    /\ UNCHANGED <<file, keepsPartialTree, run, contents, manifestFile, manifestContent,
                   xmlDoc, issues, fixes, warnings, thrown, result, first, analysis>>
    /\ UNCHANGED uploaderVars

\* validateAndRepairScormPackage returns: setRepairResult, setScormFile, and
\* the insert of the job starts
ValidationReturns ==
    /\ pc = "validating"
    /\ \E r \in RepairResults(file) :
        /\ result' = r
        /\ repairResult' = r
        /\ scormFile' = IF r.repairedFile.present THEN r.repairedFile ELSE file
    /\ pc' = "insert"
    /\ UNCHANGED <<isValidating, jobId>>
    /\ UNCHANGED <<file, keepsPartialTree, run, contents, manifestFile, manifestContent,
                   xmlDoc, issues, fixes, warnings, thrown, first, analysis>>
    /\ UNCHANGED uploaderVars

\* the insert returns: an error is logged, a job gives setJobId(data.id)
InsertReturns ==
    /\ pc = "insert"
    /\ \/ jobId' = JobId(1, 1)
       \/ jobId' = jobId
    /\ pc' = "finally"
    /\ UNCHANGED <<isValidating, scormFile, repairResult>>
    /\ UNCHANGED <<file, keepsPartialTree, run, contents, manifestFile, manifestContent,
                   xmlDoc, issues, fixes, warnings, thrown, result, first, analysis>>
    /\ UNCHANGED uploaderVars

\* the awaited insert rejects: the catch block, setScormFile(file)
InsertThrows ==
    /\ pc = "insert"
    /\ scormFile' = file
    /\ thrown' = "insert"
    /\ pc' = "finally"
    /\ UNCHANGED <<isValidating, repairResult, jobId>>
    /\ UNCHANGED <<file, keepsPartialTree, run, contents, manifestFile, manifestContent,
                   xmlDoc, issues, fixes, warnings, result, first, analysis>>
    /\ UNCHANGED uploaderVars

\* finally: setIsValidating(false)
Finally ==
    /\ pc = "finally"
    /\ isValidating' = FALSE
    /\ pc' = "finished"
    /\ UNCHANGED <<scormFile, repairResult, jobId>>
    /\ UNCHANGED <<file, keepsPartialTree, run, contents, manifestFile, manifestContent,
                   xmlDoc, issues, fixes, warnings, thrown, result, first, analysis>>
    /\ UNCHANGED uploaderVars

IndexNext ==
    \/ HandleFileUpload
    \/ ValidationReturns
    \/ InsertReturns
    \/ InsertThrows
    \/ Finally

IndexSpec == IndexInit /\ [][IndexNext]_vars

-----------------------------------------------------------------------------
(* What the claims speak of *)

Returned == result.kind = "returned"

\* the call returned and no read of the archive failed on the way
CleanRun == Returned /\ thrown = "none"

MarkupFiles(entries) == Filter(ZipKeys(entries), {f \in Range(ZipKeys(entries)) : IsMarkup(f)})

HasManifestEntry(entries) ==
    \E i \in DOMAIN entries : ToLowerCase(entries[i].name) = ManifestName

\* the document a parser reads from the manifest of the repaired archive
RepairedDoc ==
    LET rep == result.repairedFile.entries
    IN  ParseFromString(rep[ZipFile(rep, ManifestName)].data, keepsPartialTree)

DefaultEntryFixes ==
    {i \in DOMAIN result.fixes : result.fixes[i].text = "Set default entry point"}

-----------------------------------------------------------------------------
(* The claims *)

\* C1: the RepairResult has success = true if and only if its issues list is
\* empty, however many fixes were applied.
C1_SuccessIffNoIssues ==
    Returned => (result.success <=> Len(result.issues) = 0)

\* C2: the result carries a repaired archive if and only if its fixes list is
\* not empty, also when the run ends in the catch block after a fix.
C2_RepairedIffFixes ==
    Returned => (result.repairedFile.present <=> Len(result.fixes) > 0)

\* C3: repair changes the manifest entry alone: every entry of the input under
\* another name is in the repaired archive with the same content, the repaired
\* archive has no other entry under another name, and the input archive is not
\* modified by the call.
C3_OnlyManifestChanged ==
    (Returned /\ result.repairedFile.present) =>
        LET rep == result.repairedFile.entries
            inp == file.entries
        IN  /\ \A i \in DOMAIN inp :
                    inp[i].name # ManifestName => \E j \in DOMAIN rep : rep[j] = inp[i]
            /\ \A j \in DOMAIN rep :
                    rep[j].name # ManifestName => \E i \in DOMAIN inp : inp[i] = rep[j]
            /\ \A j, k \in DOMAIN rep : rep[j].name = rep[k].name => j = k

C3_InputNeverModified == [][run' = run => file' = file]_vars

C3_RepairFrame == []C3_OnlyManifestChanged /\ C3_InputNeverModified

C3_Witness ==
    /\ Returned
    /\ result.repairedFile.present
    /\ Len(file.entries) = MaxEntries
    /\ file.entries[1].name # ManifestName
    /\ ZipFile(file.entries, ManifestName) # 0
    /\ result.repairedFile.entries # file.entries

\* C4: validating a repaired archive again yields success = true and an empty
\* fixes list (here: in a second run no read of which fails).
C4_RepairIdempotent ==
    (run = 2 /\ CleanRun) => (result.success /\ Len(result.fixes) = 0)

\* C5: the call never raises: whatever fails, the call has returned a
\* RepairResult, whose lists are the issues (with the error's message), fixes
\* and warnings collected up to the failure.
C5_NeverRaises ==
    /\ result.kind \in {"pending", "returned"}
    /\ result.kind = "pending" <=> pc \in {"load", "manifest", "validate", "runtime", "return"}
    /\ thrown # "none" => Returned
    /\ Returned =>
            /\ result.issues = issues
            /\ result.fixes = fixes
            /\ result.warnings = warnings
    /\ (Returned /\ thrown # "none") =>
            /\ ~result.success
            /\ result.issues # <<>>
            /\ result.issues[Len(result.issues)] = Message("Error", <<>>)
    /\ (Returned /\ thrown = "loadAsync") =>
            /\ Len(result.issues) = 1
            /\ result.fixes = <<>>
            /\ result.warnings = <<>>
    /\ (Returned /\ thrown = "manifestFile.async" /\ manifestFile.name # ManifestName) =>
            /\ Len(result.issues) = 2
            /\ result.fixes = <<Message("Found manifest with different case",
                                        <<manifestFile.name>>)>>

C5_Witness ==
    /\ Returned
    /\ thrown = "generateAsync"
    /\ Len(result.fixes) > 0
    /\ Len(result.warnings) > 0

\* C6: when the archive has no manifest under any case and holds a markup
\* file, exactly one fix is recorded, a repaired archive is returned, and the
\* manifest made for it has one resource, whose href is the first markup file
\* of the archive.
C6_SynthesizedManifest ==
    (CleanRun /\ ~HasManifestEntry(file.entries) /\ MarkupFiles(file.entries) # <<>>) =>
        /\ Len(result.fixes) = 1
        /\ result.repairedFile.present
        /\ ZipFile(result.repairedFile.entries, ManifestName) # 0
        /\ Len(RepairedDoc.resources) = 1
        /\ RepairedDoc.resources[1].href = MarkupFiles(file.entries)[1]

\* C7: the archive whose well-formed imsmanifest.xml declares schemaversion
\* '2004 3rd Edition', one organization with two items and one resource with
\* href index.html, index.html being in the archive, is validated with no
\* issue, no fix and no repaired archive, and analyzed as version SCORM 2004,
\* a structure of two nodes and the entry points [index.html].
Scenario2004 ==
    /\ run = 1
    /\ ZipFile(file.entries, ManifestName) # 0
    /\ ZipFile(file.entries, IndexHtml) # 0
    /\ LET m == file.entries[ZipFile(file.entries, ManifestName)].data
       IN  /\ m.defects = {}
           /\ ~m.errElem
           /\ m.schemaversion = Schema2004
           /\ Len(m.items) = 2
           /\ Len(m.resources) = 1
           /\ m.resources[1].href = IndexHtml

C7_Scenario2004 ==
    /\ (CleanRun /\ Scenario2004) =>
            /\ result.issues = <<>>
            /\ result.fixes = <<>>
            /\ ~result.repairedFile.present
            /\ result.success
    /\ (Scenario2004 /\ analysis.kind = "threw") => analysis.error = "read failure"
    /\ (Scenario2004 /\ analysis.kind = "analysis") =>
            /\ analysis.version = "SCORM 2004"
            /\ Len(analysis.structure) = 2
            /\ analysis.entryPoints = <<IndexHtml>>

C7_Witness ==
    /\ Scenario2004
    /\ CleanRun
    /\ analysis.kind = "analysis"
    /\ analysis.entryPoints = <<IndexHtml>>

\* C8: every declared resource whose href is not empty and names no entry of
\* the archive has its 'Entry point not found' issue, wherever it stands among
\* the resources.
C8_EveryMissingHrefReported ==
    (CleanRun /\ xmlDoc # NoDoc) =>
        \A i \in DOMAIN xmlDoc.resources :
            LET href == xmlDoc.resources[i].href
            IN  (href # EmptyString /\ ZipFile(file.entries, href) = 0) =>
                    Message("Entry point not found", <<href>>) \in Range(result.issues)

\* C9: when the manifest is there, none of its resources' hrefs names an entry
\* of the archive and the archive holds a markup file, the default entry point
\* fix is recorded once, for the first markup file of the archive, and the
\* first resource of the manifest of the repaired archive has that file as its
\* href.
NoHrefResolves ==
    \A i \in DOMAIN xmlDoc.resources :
        \/ xmlDoc.resources[i].href = EmptyString
        \/ ZipFile(file.entries, xmlDoc.resources[i].href) = 0

C9_DefaultEntryPoint ==
    (CleanRun /\ xmlDoc # NoDoc /\ NoHrefResolves /\ MarkupFiles(file.entries) # <<>>) =>
        /\ Cardinality(DefaultEntryFixes) = 1
        /\ \A i \in DefaultEntryFixes : result.fixes[i].args = <<MarkupFiles(file.entries)[1]>>
        /\ result.repairedFile.present
        /\ ZipFile(result.repairedFile.entries, ManifestName) # 0
        /\ Len(RepairedDoc.resources) >= 1
        /\ RepairedDoc.resources[1].href = MarkupFiles(file.entries)[1]

\* C10: an archive with no markup file ends validation with the content
\* presence issue among its issues and success = false, whatever else it holds
\* and whatever fixes were applied.
C10_NoMarkupIsTerminal ==
    (CleanRun /\ MarkupFiles(file.entries) = <<>>) =>
        /\ Message("No content files (HTML/SWF) found in package", <<>>) \in Range(result.issues)
        /\ ~result.success

\* C11: when the manifest does not parse and the textually repaired text does,
\* the fix is recorded and 'Malformed XML in manifest' is not among the issues
\* of the result; when the repaired text does not parse either, no fix is
\* recorded, the issue is among the issues and the call has gone on to its
\* return.
FixedTextParses ==
    ~HasParseError(ParseFromString(FixCommonXmlIssues(manifestContent), keepsPartialTree))

C11_WellFormednessOutcome ==
    (CleanRun /\ xmlDoc # NoDoc /\ HasParseError(xmlDoc)) =>
        LET fix == Message("Fixed XML encoding issues in manifest", <<>>)
            issue == Message("Malformed XML in manifest", <<>>)
        IN  IF FixedTextParses
            THEN fix \in Range(result.fixes) /\ issue \notin Range(result.issues)
            ELSE fix \notin Range(result.fixes) /\ issue \in Range(result.issues)

\* C12: a manifest without any resource element gets the warning of the
\* resources section check and no issue for it.
C12_NoResourcesIsWarningOnly ==
    (CleanRun /\ xmlDoc # NoDoc /\ Len(xmlDoc.resources) = 0) =>
        /\ Message("Package may not have proper resource definitions", <<>>)
                \in Range(result.warnings)
        /\ Message("No resources defined in manifest", <<>>) \notin Range(result.issues)

\* C13: analyzeScormPackage throws the manifest-missing error when the archive
\* has no entry named exactly imsmanifest.xml, throws when the manifest text
\* does not parse, and returns an analysis only otherwise.
C13_AnalyzerErrors ==
    (pc = "analyzed") =>
        LET at == ZipFile(FinalFile, ManifestName)
        IN  /\ at = 0 => /\ analysis.kind = "threw"
                         /\ analysis.error \in {"No imsmanifest.xml found", "read failure"}
            /\ (at # 0 /\ FinalFile[at].data.defects # {}) => analysis.kind = "threw"

\* C14: the detected version is SCORM 2004 when the schemaversion text
\* contains '2004', else SCORM 1.2 when it contains '1.2'; when it contains
\* neither, the same two tests on the xmlns attribute of the manifest element
\* decide, and the version is Unknown when nothing matches. It is always one
\* of the three values, and the namespace is looked at only when the
\* schemaversion text decides nothing.
VersionDetected == pc \in {"version", "structure"} /\ analysis.kind \in {"version", "structure"}

C14_VersionDetection ==
    VersionDetected =>
        LET sv == xmlDoc.schemaversion
            ns == xmlDoc.xmlns
            svDecides == Includes(sv, Text2004) \/ Includes(sv, Text12)
        IN  /\ analysis.version \in {"SCORM 2004", "SCORM 1.2", "Unknown"}
            /\ Includes(sv, Text2004) => analysis.version = "SCORM 2004"
            /\ (Includes(sv, Text12) /\ ~Includes(sv, Text2004)) => analysis.version = "SCORM 1.2"
            /\ (~svDecides /\ Includes(ns, Text2004)) => analysis.version = "SCORM 2004"
            /\ (~svDecides /\ Includes(ns, Text12) /\ ~Includes(ns, Text2004)) =>
                    analysis.version = "SCORM 1.2"
            /\ (~svDecides /\ ~Includes(ns, Text2004) /\ ~Includes(ns, Text12)) =>
                    analysis.version = "Unknown"

C14_Witness ==
    /\ VersionDetected
    /\ xmlDoc.schemaversion = Text12
    /\ xmlDoc.xmlns = UrnScorm2004
    /\ analysis.version = "SCORM 1.2"

\* C15: the structure keeps the document order and the nesting of the items:
\* its roots are the direct child items of the organization in order, the
\* children of a node are the direct child items of its item in order, and
\* the level of a node is its depth, 0 for a root; for the items A, B with C
\* under B it is [A, B] with B.children = [C].
ChildrenOf(node) == IF node.children.defined THEN node.children.value ELSE <<>>

RECURSIVE Mirrors(_, _, _)
Mirrors(nodes, items, level) ==
    /\ Len(nodes) = Len(items)
    /\ \A i \in DOMAIN nodes :
            /\ nodes[i].identifier = items[i].identifier
            /\ nodes[i].title = items[i].title
            /\ nodes[i].level = level
            /\ Mirrors(ChildrenOf(nodes[i]), items[i].children, level + 1)

C15_StructureOrderAndNesting ==
    (pc = "structure") =>
        /\ Mirrors(analysis.structure, xmlDoc.items, 0)
        /\ xmlDoc.items = Course12.items =>
                /\ [i \in DOMAIN analysis.structure |-> analysis.structure[i].identifier]
                        = <<"A", "B">>
                /\ [i \in DOMAIN ChildrenOf(analysis.structure[2]) |->
                        ChildrenOf(analysis.structure[2])[i].identifier] = <<"C">>
                /\ ChildrenOf(analysis.structure[1]) = <<>>

C15_Witness ==
    /\ pc = "structure"
    /\ xmlDoc.items = Course12.items
    /\ Len(analysis.structure) = 2
    /\ ChildrenOf(analysis.structure[2])[1].level = 1

\* C16: the buckets returned by categorizeFiles cover the archive: the paths
\* in the seven buckets together are the names of the entries that are not
\* folders.
BucketPaths ==
    [html |-> Range(analysis.html),
     videos |-> {m.path : m \in Range(analysis.videos)},
     audio |-> {m.path : m \in Range(analysis.audio)},
     images |-> Range(analysis.images),
     javascript |-> Range(analysis.javascript),
     css |-> Range(analysis.css),
     other |-> Range(analysis.other)]

BucketNames == {"html", "videos", "audio", "images", "javascript", "css", "other"}

C16_BucketsCoverArchive ==
    (pc = "categorized") =>
        UNION {BucketPaths[b] : b \in BucketNames}
            = {e.name : e \in {e \in Range(contents) : ~IsDir(e)}}

\* C17: no entry is in two buckets or twice in one, while the reads complete
\* and after; an .ogg entry, whose extension is on the video and the audio
\* list, is among the videos and never among the audio files, and an .mp3
\* entry is among the audio files.
BucketLength(b) == Len(analysis[b])

C17_NoDoubleClassification ==
    (pc \in {"reading", "categorized"}) =>
        /\ \A b, c \in BucketNames : b # c => BucketPaths[b] \cap BucketPaths[c] = {}
        /\ \A b \in BucketNames : Cardinality(BucketPaths[b]) = BucketLength(b)
        /\ ClipOgg \notin BucketPaths.audio
        /\ (pc = "categorized" /\ ZipFile(contents, ClipOgg) # 0) => ClipOgg \in BucketPaths.videos
        /\ (pc = "categorized" /\ ZipFile(contents, SongMp3) # 0) => SongMp3 \in BucketPaths.audio

C17_Witness ==
    /\ pc = "categorized"
    /\ ClipOgg \in BucketPaths.videos
    /\ SongMp3 \in BucketPaths.audio
    /\ IndexHtml \in BucketPaths.html

\* C18: the assessments are in the order of the strategies (QTI, script,
\* HTML, manifest) and, within a strategy, in the enumeration order of the
\* archive, at every point of the extraction and whichever reads fail.
StrategyRank(type) ==
    IF type = "qti" THEN 1 ELSE IF type = "javascript" THEN 2 ELSE IF type = "html" THEN 3 ELSE 4

C18_AssessmentOrder ==
    (analysis.kind = "assessments") =>
        \A i, j \in DOMAIN analysis.assessments :
            i < j =>
                LET a == analysis.assessments[i]
                    b == analysis.assessments[j]
                IN  \/ StrategyRank(a.type) < StrategyRank(b.type)
                    \/ /\ a.type = b.type
                       /\ ZipFile(contents, a.file) < ZipFile(contents, b.file)

C18_Witness ==
    /\ pc = "assessed"
    /\ analysis.failed = {}
    /\ [i \in DOMAIN analysis.assessments |-> analysis.assessments[i].type]
            = <<"qti", "qti", "javascript", "scorm">>

AssessmentsFor(type, filename) ==
    {i \in DOMAIN analysis.assessments :
        analysis.assessments[i].type = type /\ analysis.assessments[i].file = filename}

C20_OneAssessmentPerSource ==
    (pc = "assessed") =>
        LET reads == ReadsOf[contents]
        IN  /\ \A i \in DOMAIN reads :
                    LET content == contents[ZipFile(contents, reads[i].file)].data
                        found == Finds(reads[i].type, content, reads[i].file)
                    IN  Cardinality(AssessmentsFor(reads[i].type, reads[i].file))
                            = IF i \notin analysis.failed /\ Len(found) >= 1 THEN 1 ELSE 0
            /\ Cardinality(AssessmentsFor("scorm", ManifestName))
                    = IF Len(xmlDoc.interactions) >= 1 THEN 1 ELSE 0
            /\ \A k \in DOMAIN analysis.assessments :
                    LET a == analysis.assessments[k]
                    IN  /\ a.questionCount = Len(a.questions)
                        /\ a.questionCount >= 1
                        /\ \/ a.type = "scorm" /\ a.file = ManifestName
                           \/ \E i \in DOMAIN reads :
                                    reads[i].type = a.type /\ reads[i].file = a.file

C20_Witness ==
    /\ pc = "assessed"
    /\ analysis.failed = {}
    /\ ZipFile(contents, QtiJs) # 0
    /\ ZipFile(contents, AppJs) # 0
    /\ Cardinality(AssessmentsFor("javascript", QtiJs)) = 1
    /\ AssessmentsFor("javascript", AppJs) = {}
    /\ AssessmentsFor("qti", QtiJs) = {}

C22_NoEmptyQtiText ==
    (analysis.kind = "assessments") =>
        \A k \in DOMAIN analysis.assessments :
            analysis.assessments[k].type = "qti" =>
                \A q \in DOMAIN analysis.assessments[k].questions :
                    analysis.assessments[k].questions[q].text # <<>>

\* C23: for a page with a quiz keyword whose read succeeds, the questions of
\* its assessment are the selected elements whose text has at least 10
\* characters, one question each and in their order; a page without such an
\* element has no assessment.
LongEnough(elements) ==
    Filter(elements, {e \in Range(elements) : Len(e) >= 10})

C23_HtmlTenCharacters ==
    (pc = "assessed") =>
        \A i \in DOMAIN ReadsOf[contents] \ analysis.failed :
            LET read == ReadsOf[contents][i]
                content == contents[ZipFile(contents, read.file)].data
                records == AssessmentsFor("html", read.file)
            IN  (read.type = "html" /\ HasQuiz(content)) =>
                    IF LongEnough(content.elements) = <<>> THEN records = {}
                    ELSE \E k \in records :
                            /\ analysis.assessments[k].questionCount
                                    = Len(LongEnough(content.elements))
                            /\ [q \in DOMAIN analysis.assessments[k].questions |->
                                    analysis.assessments[k].questions[q].text]
                                    = LongEnough(content.elements)

\* C24: no two questions of one assessment have the same id.
C24_QuestionIdsUnique ==
    (analysis.kind = "assessments") =>
        \A k \in DOMAIN analysis.assessments :
            LET questions == analysis.assessments[k].questions
            IN  \A p, q \in DOMAIN questions :
                    questions[p].id = questions[q].id => p = q

\* C25: when the validation returns success = true, the analysis of the archive
\* handed on (the repaired archive when there is one, otherwise the input)
\* does not fail for a missing manifest.
C25_ValidatedArchiveHasManifest ==
    (pc = "analyzed" /\ result.success) =>
        ~(analysis.kind = "threw" /\ analysis.error = "No imsmanifest.xml found")

\* C26: the paths of the video entries, and of the audio entries, returned by
\* categorizeFiles are in the enumeration order of the archive, whatever the
\* order in which the reads of the payloads complete.
MediaPaths(media) == [i \in DOMAIN media |-> media[i].path]

C26_MediaInArchiveOrder ==
    (pc = "categorized") =>
        /\ MediaPaths(analysis.videos) = Pushed(contents, "videos")
        /\ MediaPaths(analysis.audio) = Pushed(contents, "audio")

\* C27: when the textual repair of the manifest and the default entry point
\* are both among the fixes of a run, the manifest of the repaired archive is
\* well-formed, is no error document, and holds the inserted resource before
\* the resources of the repaired text.
C27_FixesAccumulate ==
    (/\ CleanRun
     /\ Message("Fixed XML encoding issues in manifest", <<>>) \in Range(result.fixes)
     /\ DefaultEntryFixes # {}) =>
        /\ result.repairedFile.present
        /\ LET rep == result.repairedFile.entries
               written == rep[ZipFile(rep, ManifestName)].data
               repaired == FixCommonXmlIssues(manifestContent)
           IN  /\ ZipFile(rep, ManifestName) # 0
               /\ written.defects = {}
               /\ ~written.errElem
               /\ written.resources
                    = <<Resource("resource_1", MarkupFiles(file.entries)[1])>> \o repaired.resources
               /\ written.items = repaired.items

\* C28: when the resource identifiers of the input manifest are pairwise
\* distinct, so are those of the manifest of the repaired archive.
DistinctIdentifiers(resources) ==
    \A i, j \in DOMAIN resources :
        resources[i].identifier = resources[j].identifier => i = j

C28_ResourceIdentifiersUnique ==
    (/\ CleanRun
     /\ result.repairedFile.present
     /\ ZipFile(result.repairedFile.entries, ManifestName) # 0
     /\ manifestContent # NoText => DistinctIdentifiers(manifestContent.resources)) =>
        LET rep == result.repairedFile.entries
        IN  DistinctIdentifiers(rep[ZipFile(rep, ManifestName)].data.resources)

\* C29: processFiles takes the files of the queue one at a time and in queue
\* order: while it runs, the files before the current one are 'complete' or
\* 'error', the current one is 'uploading' or 'analyzing', the ones after it
\* are as they were. When isProcessing returns to false every file of the
\* queue is 'complete' or 'error' (a failure does not stop the later files),
\* and onComplete has been called if and only if a file is 'complete', with
\* the job ids of the complete files in queue order.
FinalStatus(f) == f.status \in {"complete", "error"}

CompletedJobIds(queued) ==
    LET completed == Filter(queued, {f \in Range(queued) : f.status = "complete"})
    IN  [k \in DOMAIN completed |-> completed[k].jobId]

OneAtATimeInOrder ==
    isProcessing =>
        /\ Len(uploadedFiles) = Len(queue)
        /\ loopIndex \in 1..(Len(queue) + 1)
        /\ (pc # "loop") => loopIndex <= Len(queue)
        /\ \A k \in DOMAIN queue :
            /\ uploadedFiles[k].id = queue[k].id
            /\ (k < loopIndex) => FinalStatus(uploadedFiles[k])
            /\ (k > loopIndex) => uploadedFiles[k] = queue[k]
            /\ (k = loopIndex) =>
                    IF pc = "loop" THEN uploadedFiles[k] = queue[k]
                    ELSE IF pc = "upload" THEN uploadedFiles[k].status = "uploading"
                    ELSE uploadedFiles[k].status = "analyzing"
        /\ jobIds = CompletedJobIds(SubSeq(uploadedFiles, 1, loopIndex - 1))

AtReturn ==
    (isProcessing /\ ~isProcessing') =>
        /\ uploadedFiles' = uploadedFiles
        /\ \A k \in DOMAIN uploadedFiles : FinalStatus(uploadedFiles[k])
        /\ onComplete' = IF CompletedJobIds(uploadedFiles) # <<>>
                         THEN Append(onComplete, CompletedJobIds(uploadedFiles))
                         ELSE onComplete

C29_ProcessFiles == []OneAtATimeInOrder /\ [][AtReturn]_vars

\* the first file failed, the second completed, and onComplete was called once,
\* with the job id of the second
C29_Witness ==
    /\ ~isProcessing
    /\ Len(uploadedFiles) = 2
    /\ uploadedFiles[1].status = "error"
    /\ uploadedFiles[2].status = "complete"
    /\ onComplete = <<<<JobId(1, 2)>>>>

\* C30: when handleFileUpload has finished, isValidating is false, scormFile is
\* not null, and scormFile is the repaired archive if the RepairResult carries
\* one and the file uploaded otherwise.
C30_AfterUpload ==
    (pc = "finished") =>
        /\ ~isValidating
        /\ scormFile # Null
        /\ scormFile = IF repairResult # Null /\ repairResult.repairedFile.present
                       THEN repairResult.repairedFile
                       ELSE file

=============================================================================
